---- MODULE Spec2Model ----
(***************************************************************************)
(* PDFQuestionExtractor: the POST /upload handler of app.py, the main()    *)
(* entry point and the pipeline of pdf_question_extractor.py               *)
(* (extract text -> structure with the AI service -> upload in batches).   *)
(*                                                                         *)
(* Python strings whose characters matter (page texts, the extracted text) *)
(* are sequences of one-character strings; opaque values (file names,      *)
(* field values of a question) are TLA+ strings.  The external services    *)
(* (PDF reader, OCR engine, completion API, storage API) are environments: *)
(* their answers are drawn from small sets by the action that calls them.  *)
(***************************************************************************)
EXTENDS Integers, Sequences, FiniteSets, TLC

\* ---------------------------------------------------------------- bounds
MaxPages == 2
MaxQuestions == 23

\* ------------------------------------------------------ program constants
batch_size == 10

\* ------------------------------------------------------------ strings
Whitespace == {" ", "\n"}

RECURSIVE lstrip(_)
lstrip(s) ==
  IF s # <<>> /\ Head(s) \in Whitespace THEN lstrip(Tail(s)) ELSE s

RECURSIVE rstrip(_)
rstrip(s) ==
  IF s # <<>> /\ s[Len(s)] \in Whitespace
    THEN rstrip(SubSeq(s, 1, Len(s) - 1))
    ELSE s

\* str.strip()
strip(s) == rstrip(lstrip(s))

\* Variant: the test `not text`, without strip().
Blank_without_strip(s) == s = <<>>

\* `not text.strip()`
Blank(s) == strip(s) = <<>>

\* ------------------------------------------------------------ the PDF
\* A page as the two readers see it: `native` is what page.extract_text()
\* returns (native_none = it returned None), `image` is what
\* pytesseract.image_to_string reads from the rasterised page.
PageSet ==
  { [native_none |-> TRUE,  native |-> <<>>,     image |-> <<"a">>],
    [native_none |-> TRUE,  native |-> <<>>,     image |-> <<>>],
    [native_none |-> FALSE, native |-> <<>>,     image |-> <<>>],
    [native_none |-> FALSE, native |-> <<" ">>,  image |-> <<>>],
    [native_none |-> FALSE, native |-> <<"a">>,  image |-> <<"a">>] }

PagesOf(n) == [1..n -> PageSet]

\* The file on disk: a readable PDF with 0..MaxPages pages, or bytes that
\* PyPDF2.PdfReader rejects.
PdfSet ==
  { [readable |-> TRUE, pages |-> p] : p \in UNION { PagesOf(n) : n \in 0..MaxPages } }
    \cup { [readable |-> FALSE, pages |-> <<>>] }

NoPdf == [readable |-> FALSE, pages |-> <<>>]

\* The loop over pdf_reader.pages: a page whose text is None or "" is
\* skipped, any other page text is appended followed by "\n".
RECURSIVE native_text(_)
native_text(pages) ==
  IF pages = <<>> THEN <<>>
  ELSE LET page == Head(pages)
           page_text == page.native
       IN (IF ~page.native_none /\ page_text # <<>>
             THEN page_text \o <<"\n">>
             ELSE <<>>) \o native_text(Tail(pages))

\* The loop over the images: every image contributes its OCR text and "\n".
RECURSIVE ocr_text(_)
ocr_text(pages) ==
  IF pages = <<>> THEN <<>>
  ELSE Head(pages).image \o <<"\n">> \o ocr_text(Tail(pages))

\* ------------------------------------------------------------ questions
QuestionFields == {"question_text", "answer", "topic", "difficulty", "question_type"}

Default(q, k) == IF k \in DOMAIN q.kv THEN q.kv[k] ELSE ""

\* Question(**q): q must be a mapping, must give question_text and may give
\* only the dataclass fields; the values are not validated.
CanConstruct(q) ==
  /\ q.mapping
  /\ "question_text" \in DOMAIN q.kv
  /\ DOMAIN q.kv \subseteq QuestionFields

Question(q) ==
  [ question_text |-> q.kv["question_text"],
    answer        |-> Default(q, "answer"),
    topic         |-> Default(q, "topic"),
    difficulty    |-> Default(q, "difficulty"),
    question_type |-> Default(q, "question_type") ]

\* ------------------------------------------------- the AI completion reply
\* One element of the JSON value the model returns.
QText(k) == "q" \o ToString(k)

GoodItem(k) ==
  [mapping |-> TRUE, kv |-> ("question_text" :> QText(k)) @@ ("answer" :> "42")]

DefectKinds == {"empty_text", "missing_text", "extra_key", "not_object"}

DefectItem(kind) ==
  CASE kind = "empty_text"   -> [mapping |-> TRUE, kv |-> ("question_text" :> "") @@ ("topic" :> "Algebra")]
    [] kind = "missing_text" -> [mapping |-> TRUE, kv |-> ("answer" :> "42")]
    [] kind = "extra_key"    -> [mapping |-> TRUE, kv |-> ("question_text" :> "q") @@ ("id" :> "7")]
    [] kind = "not_object"   -> [mapping |-> FALSE, kv |-> <<>>]

\* An array of n items, all well formed except item d (d = 0: none).
ArrayItems(n, d, kind) ==
  [k \in 1..n |-> IF k = d THEN DefectItem(kind) ELSE GoodItem(k)]

\* What chat.completions.create can give: an exception, or a message whose
\* content is not JSON, a JSON number, a JSON object (iterating it yields
\* its keys, which are strings) or a JSON array.
ResponseSet ==
  { [kind |-> "call_failed", items |-> <<>>],
    [kind |-> "not_json",    items |-> <<>>],
    [kind |-> "json_number", items |-> <<>>],
    [kind |-> "json_object", items |-> <<DefectItem("not_object")>>] }
  \cup { [kind |-> "json_array", items |-> ArrayItems(n, 0, "empty_text")] : n \in 0..MaxQuestions }
  \cup UNION { { [kind |-> "json_array", items |-> ArrayItems(n, d, kind)] :
                   d \in 1..n, kind \in DefectKinds } : n \in 1..MaxQuestions }

\* True when the body of the try block runs to its return statement.
ParseSucceeds(reply) ==
  /\ reply.kind \in {"json_array", "json_object"}
  /\ \A k \in 1..Len(reply.items) : CanConstruct(reply.items[k])

\* Variant: elements that cannot become a Question are skipped one by one.
parsed_questions_skipping(reply) ==
  IF reply.kind \in {"json_array", "json_object"}
    THEN LET usable == SelectSeq(reply.items, CanConstruct)
         IN [k \in 1..Len(usable) |-> Question(usable[k])]
    ELSE <<>>

\* parse_questions_with_ai after the completion call: the list of Question
\* records, or [] when anything in the try block raised.
parsed_questions(reply) ==
  IF ParseSucceeds(reply)
    THEN [k \in 1..Len(reply.items) |-> Question(reply.items[k])]
    ELSE <<>>

\* ------------------------------------------------------- the storage API
\* The record built for one question.
Record(question) ==
  [ QuestionText |-> question.question_text,
    Answer       |-> question.answer,
    Topic        |-> question.topic,
    Difficulty   |-> question.difficulty,
    Type         |-> question.question_type,
    Source       |-> "PDF Upload",
    Created      |-> "2024-01-01" ]

Min(a, b) == IF a < b THEN a ELSE b

\* Variant: the slice questions[i:i + batch_size + 1].
Batch_one_too_long(qs, i) == SubSeq(qs, i + 1, Min(i + batch_size + 1, Len(qs)))

\* questions[i:i + batch_size], i counted from 0 as in the code.
Batch(qs, i) == SubSeq(qs, i + 1, Min(i + batch_size, Len(qs)))

Records(batch) == [k \in 1..Len(batch) |-> Record(batch[k])]

\* What one POST can give: "rejected" is a RequestException (transport
\* error, or raise_for_status on a non-2xx reply); "accepted" is a 2xx
\* reply whose JSON object lists the created records; "accepted_empty" is
\* a 2xx reply whose JSON object has no 'records' key.
PostOutcomes == {"rejected", "accepted", "accepted_empty"}

\* Variant: the reply is counted without raise_for_status().
uploaded_count_unchecked(outcome, records) ==
  IF outcome # "accepted_empty" THEN Len(records) ELSE 0

\* len(result.get('records', []))
uploaded_count(outcome, records) ==
  IF outcome = "accepted" THEN Len(records) ELSE 0

\* ------------------------------------------------------------ the state
VARIABLES
  pc,              \* where the request is
  entry,           \* who called the pipeline: "upload" (app.py) or "main"
  uploads,         \* the names of the files in the uploads directory
  filepath,        \* the name of the file the request saved ("" if none)
  pdf,             \* the content of the file handed to process_pdf
  text,            \* the local `text` of extract_text_from_pdf / process_pdf
  ocr_state,       \* "not_run", "done" or "failed" (the except branch ran)
  questions,       \* the local `questions` of process_pdf
  i,               \* the loop variable of upload_to_airtable
  total_uploaded,  \* the local `total_uploaded`
  success,         \* the value upload_to_airtable returned
  ai_requests,     \* number of requests sent to the completion service
  response,        \* what the completion service answered
  posts,           \* the requests sent to the storage API, in order
  result,          \* the dict process_pdf returned
  raised,          \* the exception that left the call chain ("" if none)
  status           \* the HTTP status of the reply (0 if none)

vars == << pc, entry, uploads, filepath, pdf, text, ocr_state, questions, i,
           total_uploaded, success, ai_requests, response, posts, result,
           raised, status >>

FileNames == {"a.pdf"}

NoResult == [pending |-> TRUE]

NoResponse == [kind |-> "none", items |-> <<>>]

Init ==
  /\ pc = "idle"
  /\ entry = ""
  /\ uploads = {}
  /\ filepath = ""
  /\ pdf = NoPdf
  /\ text = <<>>
  /\ ocr_state = "not_run"
  /\ questions = <<>>
  /\ i = 0
  /\ total_uploaded = 0
  /\ success = FALSE
  /\ ai_requests = 0
  /\ response = NoResponse
  /\ posts = <<>>
  /\ result = NoResult
  /\ raised = ""
  /\ status = 0

pipeline_vars == << text, ocr_state, questions, i, total_uploaded, success,
                    ai_requests, response, posts, result >>

\* ------------------------------------------------------------ app.py
\* POST /upload up to file.save: no file part or an empty file name is
\* answered 400 at once, otherwise the file is written under uploads/.
upload ==
  /\ pc = "idle"
  /\ entry' = "upload"
  /\ \/ /\ pc' = "done"
        /\ status' = 400
        /\ UNCHANGED << uploads, filepath, pdf >>
     \/ \E name \in FileNames, content \in PdfSet :
          /\ uploads' = uploads \cup {name}
          /\ filepath' = name
          /\ pdf' = content
          /\ pc' = "init"
          /\ UNCHANGED status
  /\ UNCHANGED pipeline_vars
  /\ UNCHANGED raised

\* main(): the example entry point, which reads math_questions.pdf.
main ==
  /\ pc = "idle"
  /\ entry' = "main"
  /\ \E content \in PdfSet : pdf' = content
  /\ pc' = "init"
  /\ UNCHANGED << uploads, filepath, status, raised >>
  /\ UNCHANGED pipeline_vars

\* The keyword arguments each caller passes to PDFQuestionExtractor(...).
ConstructorArgs(caller) ==
  IF caller = "upload"
    THEN {"airtable_api_key", "airtable_base_id"}
    ELSE {"deepseek_api_key", "airtable_api_key", "airtable_base_id"}

\* The parameters of __init__, none of which has a default.
InitParams == {"deepseek_api_key", "airtable_api_key", "airtable_base_id"}

\* Python binds the call: a parameter without a value is a TypeError.
Binds(args) == InitParams \subseteq args

\* PDFQuestionExtractor(...).  upload() passes no deepseek_api_key, so under
\* Flask the call raises before process_pdf is reached; main() passes all
\* three arguments.
PDFQuestionExtractor_init ==
  /\ pc = "init"
  /\ IF Binds(ConstructorArgs(entry))
       THEN /\ pc' = "extract"
            /\ UNCHANGED raised
       ELSE /\ pc' = "raised"
            /\ raised' = "TypeError"
  /\ UNCHANGED << entry, uploads, filepath, pdf, status >>
  /\ UNCHANGED pipeline_vars

\* --------------------------------------------- pdf_question_extractor.py
\* extract_text_from_pdf, the PyPDF2 pass: the reader raises on a file it
\* cannot read, and the exception leaves process_pdf; otherwise the page
\* texts are joined and a blank result sends the function to the OCR pass.
extract_text_from_pdf ==
  /\ pc = "extract"
  /\ IF ~pdf.readable
       THEN /\ pc' = "raised"
            /\ raised' = "PdfReadError"
            /\ UNCHANGED text
       ELSE /\ text' = native_text(pdf.pages)
            /\ pc' = IF Blank(text') THEN "ocr" ELSE "check_text"
            /\ UNCHANGED raised
  /\ UNCHANGED << entry, uploads, filepath, pdf, ocr_state, questions, i,
                  total_uploaded, success, ai_requests, response, posts, result, status >>

\* The OCR pass (the try block): either every page image is read and the
\* joined OCR text replaces `text`, or pdf2image / pytesseract raises, the
\* handler prints, and `text` keeps the blank value of the first pass.
ocr_fallback ==
  /\ pc = "ocr"
  /\ \/ /\ text' = ocr_text(pdf.pages)
        /\ ocr_state' = "done"
     \/ /\ ocr_state' = "failed"
        /\ UNCHANGED text
  /\ pc' = "check_text"
  /\ UNCHANGED << entry, uploads, filepath, pdf, questions, i, total_uploaded,
                  success, ai_requests, response, posts, result, raised, status >>

\* process_pdf, step 1: `if not text.strip(): return ...`
process_pdf_text ==
  /\ pc = "check_text"
  /\ IF Blank(text)
       THEN /\ result' = [success |-> FALSE, error |-> "No text found in PDF"]
            /\ pc' = "return"
       ELSE /\ pc' = "parse"
            /\ UNCHANGED result
  /\ UNCHANGED << entry, uploads, filepath, pdf, text, ocr_state, questions, i,
                  total_uploaded, success, ai_requests, response, posts, raised, status >>

\* parse_questions_with_ai: one request to the completion service; every
\* exception of the try block is caught and turned into [].
parse_questions_with_ai ==
  /\ pc = "parse"
  /\ ai_requests' = ai_requests + 1
  /\ \E reply \in ResponseSet :
       /\ response' = reply
       /\ questions' = parsed_questions(reply)
  /\ pc' = "check_questions"
  /\ UNCHANGED << entry, uploads, filepath, pdf, text, ocr_state, i,
                  total_uploaded, success, posts, result, raised, status >>

\* process_pdf, step 2: `if not questions: return ...`, else the call of
\* upload_to_airtable begins (total_uploaded = 0, the range starts at 0).
process_pdf_questions ==
  /\ pc = "check_questions"
  /\ IF questions = <<>>
       THEN /\ result' = [success |-> FALSE, error |-> "No questions found in text"]
            /\ pc' = "return"
            /\ UNCHANGED << i, total_uploaded >>
       ELSE /\ pc' = "upload"
            /\ i' = 0
            /\ total_uploaded' = 0
            /\ UNCHANGED result
  /\ UNCHANGED << entry, uploads, filepath, pdf, text, ocr_state, questions,
                  success, ai_requests, response, posts, raised, status >>

\* Variant: `break` in the except branch, so a rejected batch ends the loop.
upload_batch_break ==
  /\ pc = "upload"
  /\ i < Len(questions)
  /\ LET records == Records(Batch(questions, i))
     IN \E outcome \in PostOutcomes :
          /\ posts' = Append(posts, [records |-> records, outcome |-> outcome])
          /\ total_uploaded' = total_uploaded + uploaded_count(outcome, records)
          /\ i' = IF outcome = "rejected" THEN Len(questions) ELSE i + batch_size
  /\ UNCHANGED << pc, entry, uploads, filepath, pdf, text, ocr_state, questions,
                  success, ai_requests, response, result, raised, status >>

\* One iteration of the loop of upload_to_airtable: the batch is posted;
\* a RequestException is printed and the loop goes on, a 2xx reply adds
\* the number of records it lists to total_uploaded.
upload_batch ==
  /\ pc = "upload"
  /\ i < Len(questions)
  /\ LET records == Records(Batch(questions, i))
     IN \E outcome \in PostOutcomes :
          /\ posts' = Append(posts, [records |-> records, outcome |-> outcome])
          /\ total_uploaded' = total_uploaded + uploaded_count(outcome, records)
  /\ i' = i + batch_size
  /\ UNCHANGED << pc, entry, uploads, filepath, pdf, text, ocr_state, questions,
                  success, ai_requests, response, result, raised, status >>

\* Variant: `return total_uploaded >= 0`.
upload_to_airtable_nonnegative ==
  /\ pc = "upload"
  /\ i >= Len(questions)
  /\ success' = (total_uploaded >= 0)
  /\ pc' = "result"
  /\ UNCHANGED << entry, uploads, filepath, pdf, text, ocr_state, questions, i,
                  total_uploaded, ai_requests, response, posts, result, raised, status >>

\* The loop is over: `return total_uploaded > 0`.
upload_to_airtable ==
  /\ pc = "upload"
  /\ i >= Len(questions)
  /\ success' = (total_uploaded > 0)
  /\ pc' = "result"
  /\ UNCHANGED << entry, uploads, filepath, pdf, text, ocr_state, questions, i,
                  total_uploaded, ai_requests, response, posts, result, raised, status >>

\* Variant: the dict reports total_uploaded instead of len(questions).
process_pdf_reports_uploaded ==
  /\ pc = "result"
  /\ result' =
       IF success
         THEN [ success |-> TRUE,
                questions_count |-> total_uploaded,
                message |-> "Successfully uploaded " \o ToString(total_uploaded)
                              \o " questions to Airtable" ]
         ELSE [success |-> FALSE, error |-> "Failed to upload to Airtable"]
  /\ pc' = "return"
  /\ UNCHANGED << entry, uploads, filepath, pdf, text, ocr_state, questions, i,
                  total_uploaded, success, ai_requests, response, posts, raised, status >>

\* process_pdf, step 3: the dict built from the uploader's verdict.
process_pdf ==
  /\ pc = "result"
  /\ result' =
       IF success
         THEN [ success |-> TRUE,
                questions_count |-> Len(questions),
                message |-> "Successfully uploaded " \o ToString(Len(questions))
                              \o " questions to Airtable" ]
         ELSE [success |-> FALSE, error |-> "Failed to upload to Airtable"]
  /\ pc' = "return"
  /\ UNCHANGED << entry, uploads, filepath, pdf, text, ocr_state, questions, i,
                  total_uploaded, success, ai_requests, response, posts, raised, status >>

\* process_pdf has returned to its caller.  upload() removes the file and
\* answers 200; main() prints the outcome.
process_return ==
  /\ pc = "return"
  /\ IF entry = "upload"
       THEN /\ uploads' = uploads \ {filepath}
            /\ status' = 200
       ELSE UNCHANGED << uploads, status >>
  /\ pc' = "done"
  /\ UNCHANGED << entry, filepath, pdf, raised >>
  /\ UNCHANGED pipeline_vars

\* An exception has left the call chain.  Under Flask the 500 handler
\* answers; main() dies with the traceback.  Nothing else runs.
handle_error ==
  /\ pc = "raised"
  /\ status' = IF entry = "upload" THEN 500 ELSE status
  /\ pc' = "done"
  /\ UNCHANGED << entry, uploads, filepath, pdf, raised >>
  /\ UNCHANGED pipeline_vars

Next ==
  \/ upload
  \/ main
  \/ PDFQuestionExtractor_init
  \/ extract_text_from_pdf
  \/ ocr_fallback
  \/ process_pdf_text
  \/ parse_questions_with_ai
  \/ process_pdf_questions
  \/ upload_batch
  \/ upload_to_airtable
  \/ process_pdf
  \/ process_return
  \/ handle_error

Spec == Init /\ [][Next]_vars

\* ------------------------------------------------------------ properties
\* Vocabulary of the properties, stated on the observable history and not
\* through the operators of the model.
OnlyWhitespace(s) == \A k \in 1..Len(s) : s[k] \in {" ", "\n"}

NoTextResult == [success |-> FALSE, error |-> "No text found in PDF"]
NoQuestionsResult == [success |-> FALSE, error |-> "No questions found in text"]
UploadFailedResult == [success |-> FALSE, error |-> "Failed to upload to Airtable"]

\* process_pdf has returned a dict.
Returned == pc \in {"return", "done"} /\ result # NoResult

\* upload_to_airtable has returned.
UploadReturned == pc \in {"result", "return", "done"} /\ questions # <<>>

RECURSIVE Concat(_)
Concat(seqs) == IF seqs = <<>> THEN <<>> ELSE Head(seqs) \o Concat(Tail(seqs))

PostedRecords == Concat([k \in 1..Len(posts) |-> posts[k].records])

PostSizes == [k \in 1..Len(posts) |-> Len(posts[k].records)]

\* The record the destination schema holds for the n-th question.
Expected(n) ==
  [ QuestionText |-> questions[n].question_text, Answer |-> questions[n].answer,
    Topic |-> questions[n].topic, Difficulty |-> questions[n].difficulty,
    Type |-> questions[n].question_type, Source |-> "PDF Upload",
    Created |-> "2024-01-01" ]

CeilDiv10(n) == (n + 9) \div 10

RECURSIVE SumSizes(_, _)
SumSizes(ps, outcomes) ==
  IF ps = <<>> THEN 0
  ELSE (IF Head(ps).outcome \in outcomes THEN Len(Head(ps).records) ELSE 0)
         + SumSizes(Tail(ps), outcomes)

\* Records of the batches that succeeded: those the storage API answered
\* with a 2xx reply listing the records it created.
ReportedTotal == SumSizes(posts, {"accepted"})

\* C1: every POST /upload that saved its file leaves no file behind once the
\* request has finished, whatever the outcome of the pipeline.
C1_FileRemovedAfterRequest ==
  (pc = "done" /\ entry = "upload" /\ filepath # "") => filepath \notin uploads

\* C2: when the extracted text is empty or whitespace-only, process_pdf
\* returns {success: false, error: "No text found in PDF"} and the run has
\* sent nothing to the completion service nor to the storage API.
C2_BlankTextShortCircuits ==
  (pc \notin {"idle", "init", "extract", "ocr", "raised"} /\ raised = ""
     /\ status # 400 /\ OnlyWhitespace(text))
  => /\ ai_requests = 0
     /\ posts = <<>>
     /\ pc \in {"check_text", "return", "done"}
     /\ pc \in {"return", "done"} => result = NoTextResult

C2_Witness ==
  /\ pc = "done" /\ result = NoTextResult
  /\ ocr_state = "done" /\ Len(pdf.pages) > 0 /\ text # <<>>

\* C3: n records are sent in exactly ceil(n/10) requests, each of at most 10
\* records and all but the last of exactly 10, which together hold every
\* input record once, in input order.
C3_BatchesPartitionInput ==
  UploadReturned =>
    /\ Len(posts) = CeilDiv10(Len(questions))
    /\ \A k \in 1..Len(posts) : Len(posts[k].records) \in 1..10
    /\ \A k \in 1..(Len(posts) - 1) : Len(posts[k].records) = 10
    /\ PostedRecords = [n \in 1..Len(questions) |-> Expected(n)]

C3_Witness ==
  UploadReturned /\ Len(questions) = 23 /\ PostSizes = <<10, 10, 3>>

\* C4: a rejected batch is neither retried nor fatal: whatever the storage
\* API answers to each batch, every batch is posted exactly once, the ones
\* after a rejected batch included.
C4_FailedBatchSkipped ==
  UploadReturned =>
    \A b \in 1..CeilDiv10(Len(questions)) :
      LET first == 10 * (b - 1) + 1
          carriers == { k \in 1..Len(posts) :
                          /\ posts[k].records # <<>>
                          /\ posts[k].records[1] = Expected(first) }
      IN carriers = {b}

C4_Witness ==
  /\ UploadReturned /\ Len(posts) = 3
  /\ posts[1].outcome = "rejected" /\ posts[2].outcome = "accepted"
  /\ posts[3].outcome = "rejected"

\* Python compares a bool with a number as 1 or 0.
PyNumber(b) == IF b THEN 1 ELSE 0

C6_AllRejectedReported ==
  (questions # <<>> /\ \A k \in 1..Len(posts) : posts[k].outcome = "rejected")
  => /\ raised = ""
     /\ pc # "raised"
     /\ pc \in {"return", "done"} => result = UploadFailedResult

C6_Witness ==
  /\ pc = "done" /\ Len(posts) = 3 /\ result = UploadFailedResult
  /\ \A k \in 1..Len(posts) : posts[k].outcome = "rejected"

\* The completion call failed, or its content is not JSON, or some element
\* cannot become a Question.
UnusableReply ==
  \/ response.kind \in {"call_failed", "not_json", "json_number", "json_object"}
  \/ /\ response.kind = "json_array"
     /\ \E k \in 1..Len(response.items) :
          \/ ~response.items[k].mapping
          \/ "question_text" \notin DOMAIN response.items[k].kv
          \/ \E key \in DOMAIN response.items[k].kv :
               key \notin {"question_text", "answer", "topic", "difficulty",
                           "question_type"}

\* C7: an unusable reply of the completion service gives an empty question
\* list without an exception, and process_pdf answers "No questions found
\* in text" without a request to the storage API.
C7_UnusableReplyGivesNoQuestions ==
  UnusableReply =>
    /\ questions = <<>>
    /\ raised = ""
    /\ posts = <<>>
    /\ pc \in {"check_questions", "return", "done"}
    /\ pc \in {"return", "done"} => result = NoQuestionsResult

C7_Witness ==
  /\ pc = "done" /\ result = NoQuestionsResult /\ response.kind = "json_array"
  /\ Len(response.items) = 3

\* C8: no record sent to the storage API has an empty question_text.
C8_NoEmptyQuestionTextUploaded ==
  \A k \in 1..Len(posts) :
    \A n \in 1..Len(posts[k].records) : posts[k].records[n].QuestionText # ""

\* C9: an OCR failure is not reported as empty text: after a failed OCR
\* pass the extracted text is not blank and the result is not the one of a
\* PDF without text.
C9_OcrFailureDistinct ==
  ocr_state = "failed" =>
    /\ ~OnlyWhitespace(text)
    /\ Returned => result # NoTextResult

\* C10: process_pdf answers success exactly when the text is not blank, the
\* question list is not empty and the storage API reported a created
\* record; questions_count and the number in the message are then the
\* number of structured questions.
C10_SuccessCondition ==
  Returned =>
    /\ result.success <=>
         (~OnlyWhitespace(text) /\ questions # <<>> /\ ReportedTotal > 0)
    /\ result.success =>
         /\ result.questions_count = Len(questions)
         /\ result.message = "Successfully uploaded " \o ToString(Len(questions))
                               \o " questions to Airtable"

\* ... and under partial failure that number exceeds what was uploaded.
C10_Witness ==
  /\ Returned /\ result.success
  /\ ReportedTotal < result.questions_count

====
